---------------------------- MODULE Spec2Model ----------------------------
(***************************************************************************)
(* EnergyWatch: the Octopus Energy EV charging monitor                     *)
(* (src/src/EnergyMonitorCheck.py).                                        *)
(*                                                                         *)
(* Numbers.  The program computes with Python floats.  Here every energy   *)
(* and power value is a fixed-point integer counting tenths (0.1 kWh,      *)
(* 0.1 kW); values rounded to two decimals count hundredths.  A quotient   *)
(* is kept exact as a pair of integers and compared by cross               *)
(* multiplication.  Times are whole seconds of time.time().                *)
(*                                                                         *)
(* Python's None is the empty tuple and a value v that may be None is the  *)
(* one-element tuple <<v>>.                                                *)
(***************************************************************************)
EXTENDS Integers, Sequences, FiniteSets, TLC

VARIABLES
    pc,                    \* where the process is: "main", "check", "sleep",
                           \* "backoff", "print", "exit", "killed" or "direct"
    argv,                  \* sys.argv[1:]
    env,                   \* os.environ, or None when main did not start the monitor
    exit_status,           \* what main returned to exit()
    stdout,                \* what main printed
    error,                 \* the exception main caught and logged
    monitors,              \* history: number of EnergyMonitor objects created
    fetch,                 \* history: how the last fetch of a cycle went
    settled,               \* environment: from now on fetch and dispatch succeed
    now,                   \* the wall clock, time.time(), in seconds
    last_alert_time,       \* self.last_alert_time
    high_usage_threshold,  \* self.high_usage_threshold, tenths of kW
    sustained_minutes,     \* self.sustained_minutes
    baseline_usage,        \* self.baseline_usage, tenths of kW
    alert_cooldown,        \* self.alert_cooldown, seconds
    consumption_data,      \* the list a direct caller of analyze_usage_pattern keeps
    analysis,              \* what the last call (run_check or a direct call) returned
    ret,                   \* what the last call of send_alert returned
    outcome,               \* the path the last operation took
    log,                   \* history: one entry for every call of send_alert
    calls,                 \* history: number of calls of analyze_usage_pattern
    cycles,                \* history: number of calls of run_check
    ops,                   \* history: number of direct calls and reorderings
    first_analysis,        \* history: result of the first direct call on the list
    last_call,             \* history: the last direct call of analyze_usage_pattern
    prev_call              \* history: the direct call before the last one

vars == <<pc, argv, env, exit_status, stdout, error, monitors, fetch, settled, now, last_alert_time, high_usage_threshold, sustained_minutes,
          baseline_usage, alert_cooldown, consumption_data, analysis, ret,
          outcome, log, calls, cycles, ops, first_analysis, last_call,
          prev_call>>

\* The process around the monitor, and the monitor's environment.
process == <<argv, env, exit_status, stdout, error, monitors, settled>>

config == <<high_usage_threshold, sustained_minutes, baseline_usage, alert_cooldown>>

None == <<>>

Some(v) == <<v>>

Range(s) == {s[i] : i \in 1..Len(s)}

\* Python truthiness of a value that is None or a number: None and 0 are falsy.
Truthy(v) == v # None /\ v[1] # 0

---------------------------------------------------------------------------
(* Readings *)

\* One element of the API's "results": interval_start is the sort key
\* (an abstract ordered timestamp), consumption is in tenths of kWh.
\* interval_end is never read by the program and is left out.
Reading(k, c) == [interval_start |-> k, consumption |-> c]

Window == 48

\* consumption_data.sort(key=lambda x: x['interval_start'], reverse=True):
\* descending by key and stable, so of two readings with the same key the
\* one that came first stays first.  place[i] is where s[i] ends up.
SortDesc(s) ==
    LET n == Len(s)
        place == SubSeq([i \in 1..n |->
                    Cardinality({j \in 1..n :
                        \/ s[j].interval_start > s[i].interval_start
                        \/ s[j].interval_start = s[i].interval_start /\ j <= i})], 1, n)
    IN  SubSeq([p \in 1..n |-> s[CHOOSE i \in 1..n : place[i] = p]], 1, n)

\* Faulty variant: the slice is one reading too long.
TakeOneMore(s, n) == IF Len(s) <= n + 1 THEN s ELSE SubSeq(s, 1, n + 1)

\* consumption_data[:48]
Take(s, n) == IF Len(s) <= n THEN s ELSE SubSeq(s, 1, n)

RECURSIVE SumRange(_, _, _)
\* the consumption of s[lo] .. s[hi] added up
SumRange(s, lo, hi) ==
    IF lo > hi THEN 0
    ELSE IF lo = hi THEN s[lo].consumption
    ELSE LET mid == (lo + hi) \div 2
         IN  SumRange(s, lo, mid) + SumRange(s, mid + 1, hi)

\* sum(reading['consumption'] for reading in recent_readings)
SumConsumption(s) == SumRange(s, 1, Len(s))

\* number of readings with consumption / 0.5 > baseline (both sides in tenths)
CountHigh(s, baseline) ==
    Cardinality({i \in 1..Len(s) : 2 * s[i].consumption > baseline})

\* max(reading['consumption'] ...) of a list that is not empty
MaxConsumption(s) ==
    LET i == CHOOSE j \in 1..Len(s) : \A k \in 1..Len(s) : s[j].consumption >= s[k].consumption
    IN  s[i].consumption

\* The integer nearest to num / den (den > 0, num >= 0), a tie going to the
\* even neighbour: round(x, 2) and the format :.1f on a scaled value.
RoundHalfEven(num, den) ==
    LET q == num \div den
        r == num % den
    IN  IF 2 * r < den THEN q
        ELSE IF 2 * r > den THEN q + 1
        ELSE IF q % 2 = 0 THEN q ELSE q + 1

\* Faulty variant: the total is taken as the energy of a full day of 48
\* intervals, however many readings there are.
DayPowerOfFullDay(recent) == [num |-> 2 * 24 * SumConsumption(recent), den |-> Window]

\* day_power_kw = (total_consumption / time_period_hours) * 24 with
\* time_period_hours = len * 0.5: the exact quotient 48 * total / len,
\* in tenths of kW.
DayPower(recent) == [num |-> 2 * 24 * SumConsumption(recent), den |-> Len(recent)]

\* q > t for the quotient q and the number t
QuotGT(q, t) == q.num > t * q.den

HighUsageCount(recent) == CountHigh(recent, baseline_usage)

\* Faulty variant: the count taken over the threshold, not the baseline.
IsChargingByThreshold(recent) ==
    QuotGT(DayPower(recent), high_usage_threshold)
    /\ CountHigh(recent, high_usage_threshold) >= sustained_minutes \div 30

\* Faulty variant: the classification consults the cooldown state.
IsChargingWhenArmed(recent) ==
    QuotGT(DayPower(recent), high_usage_threshold)
    /\ HighUsageCount(recent) >= sustained_minutes \div 30
    /\ last_alert_time = None

\* Faulty variant: the number of periods asked for is rounded up.
IsChargingRoundedUp(recent) ==
    QuotGT(DayPower(recent), high_usage_threshold)
    /\ HighUsageCount(recent) >= (sustained_minutes + 29) \div 30

\* is_charging = day_power_kw > self.high_usage_threshold and
\*               high_usage_count >= self.sustained_minutes // 30
IsCharging(recent) ==
    QuotGT(DayPower(recent), high_usage_threshold)
    /\ HighUsageCount(recent) >= sustained_minutes \div 30

AnalysisOf(recent) ==
    LET day_power_kw == DayPower(recent)
        is_charging  == IsCharging(recent)
    IN  [is_charging            |-> is_charging,
         average_power_kw       |-> RoundHalfEven(10 * day_power_kw.num, day_power_kw.den),
         peak_power_kw          |-> 20 * MaxConsumption(recent),
         high_usage_periods     |-> HighUsageCount(recent),
         total_periods_analyzed |-> Len(recent),
         latest_reading_time    |-> recent[1].interval_start,
         reason |-> << IF is_charging THEN "High sustained usage detected: "
                                      ELSE "Usage within normal range: ",
                       RoundHalfEven(day_power_kw.num, day_power_kw.den),
                       "kW average" >>]

NoData == [is_charging |-> FALSE, reason |-> <<"No data available">>]

Insufficient == [is_charging |-> FALSE, reason |-> <<"Insufficient data">>]

\* The list as analyze_usage_pattern leaves it: untouched when empty (the
\* early return precedes the sort), sorted in place otherwise.
SortedInPlace(data) == IF data = <<>> THEN data ELSE SortDesc(data)

\* Faulty variant: truncation without the sort.
RecentUnsorted(data) == Take(data, Window)

\* recent_readings
RecentReadings(data) == Take(SortedInPlace(data), Window)

\* Faulty variant: the empty list is not told apart.
AnalyzeNoEmptyCheck(data) ==
    LET recent_readings == RecentReadings(data)
    IN  IF Len(recent_readings) < 2 THEN Insufficient
        ELSE AnalysisOf(recent_readings)

\* Faulty variant: one reading counts as enough.
AnalyzeFromOne(data) ==
    IF data = <<>> THEN NoData
    ELSE LET recent_readings == RecentReadings(data)
         IN  IF Len(recent_readings) < 1 THEN Insufficient
             ELSE AnalysisOf(recent_readings)

\* The value analyze_usage_pattern returns for the list data.
analyze_usage_pattern(data) ==
    IF data = <<>> THEN NoData
    ELSE LET recent_readings == RecentReadings(data)
         IN  IF Len(recent_readings) < 2 THEN Insufficient
             ELSE AnalysisOf(recent_readings)

---------------------------------------------------------------------------
(* Bounds and inputs *)

StartTime == 1000

MaxCycles == 3

MaxDelay == 1

MaxLen == 3

MaxOps == 4

\* time.sleep(check_interval_minutes * 60) with the default of 30 minutes
CheckIntervalSeconds == 1800

\* n readings of consumption c each, oldest first as the API orders them
\* ('order_by': 'period'), with the keys first .. first + n - 1
Uniform(first, n, c) == [i \in 1..n |-> Reading(first + i - 1, c)]

\* What a fetch may return besides the empty list: a day of 1.0 kWh
\* readings, a day of 0.3 kWh readings, a single reading.
FetchSamples ==
    { Uniform(1, Window, 10), Uniform(1, Window, 3), Uniform(1, 1, 10) }

\* high_usage_threshold_kw, sustained_minutes, baseline_usage_kw as
\* __init__ defaults them (30.0, 240, 0.5) and as load_config defaults them
\* (30.0, 30, 0.8); alert_cooldown_hours 1 or 0.
MonitorConfigs ==
    { [threshold |-> 300, sustained |-> 240, baseline |-> 5, cooldown_hours |-> 1],
      [threshold |-> 300, sustained |-> 30,  baseline |-> 8, cooldown_hours |-> 1],
      [threshold |-> 300, sustained |-> 30,  baseline |-> 8, cooldown_hours |-> 0] }

\* self.alert_cooldown = config.get('alert_cooldown_hours', 4) * 3600
CooldownSeconds(hours) == hours * 3600

---------------------------------------------------------------------------
(* send_alert *)

\* Faulty variant: the comparison turned around.
SuppressedInverted ==
    /\ Truthy(last_alert_time)
    /\ now - last_alert_time[1] > alert_cooldown

\* Faulty variant: exactly alert_cooldown apart still suppressed.
SuppressedLE ==
    /\ Truthy(last_alert_time)
    /\ now - last_alert_time[1] <= alert_cooldown

\* if self.last_alert_time and current_time - self.last_alert_time < self.alert_cooldown
Suppressed ==
    /\ Truthy(last_alert_time)
    /\ now - last_alert_time[1] < alert_cooldown

\* The history entry of a call of send_alert at current_time = now.
LogEntry(result, after) ==
    [time |-> now, result |-> result, before |-> last_alert_time, after |-> after]

\* Faulty variant: a suppressed attempt restarts the cooldown.
SendAlertSuppressedRestamps ==
    /\ Suppressed
    /\ last_alert_time' = Some(now)
    /\ ret' = None
    /\ outcome' = "suppressed"
    /\ log' = Append(log, LogEntry("suppressed", Some(now)))

\* send_alert returns at the cooldown check.
SendAlertSuppressed ==
    /\ Suppressed
    /\ UNCHANGED last_alert_time
    /\ ret' = None
    /\ outcome' = "suppressed"
    /\ log' = Append(log, LogEntry("suppressed", last_alert_time))

\* Faulty variant: the time is recorded before the dispatch is known to succeed.
SendAlertFailedStamped ==
    /\ ~Suppressed
    /\ last_alert_time' = Some(now)
    /\ ret' = None
    /\ outcome' = "failed"
    /\ log' = Append(log, LogEntry("failed", Some(now)))

\* messages.create raises: the except clause logs the error and send_alert
\* returns; the assignment to last_alert_time was not reached.
SendAlertFailed ==
    /\ ~Suppressed
    /\ UNCHANGED last_alert_time
    /\ ret' = None
    /\ outcome' = "failed"
    /\ log' = Append(log, LogEntry("failed", last_alert_time))

\* Faulty variant: the time of a sent alert is not recorded.
SendAlertSentNoStamp ==
    /\ ~Suppressed
    /\ UNCHANGED last_alert_time
    /\ ret' = None
    /\ outcome' = "sent"
    /\ log' = Append(log, LogEntry("sent", last_alert_time))

\* messages.create returns: self.last_alert_time = current_time.
SendAlertSent ==
    /\ ~Suppressed
    /\ last_alert_time' = Some(now)
    /\ ret' = None
    /\ outcome' = "sent"
    /\ log' = Append(log, LogEntry("sent", Some(now)))

---------------------------------------------------------------------------
(* get_consumption_data *)

\* What requests.get gave: a response with its status code and the
\* 'results' of its body, or an exception (no connection, a timeout, a body
\* that is not JSON).
Response(status_code, results) ==
    [raised |-> FALSE, status_code |-> status_code, results |-> results]

Raised == [raised |-> TRUE]

\* Faulty variant: the status code is not looked at.
GetConsumptionDataAnyStatus(r) ==
    IF r.raised THEN <<>> ELSE r.results

\* The list get_consumption_data returns.
get_consumption_data(r) ==
    IF r.raised THEN <<>>
    ELSE IF r.status_code = 200 THEN r.results
    ELSE <<>>

\* How a fetch went, for the history.
FetchKind(r) == IF r.raised THEN <<"exception">> ELSE <<"status", r.status_code>>

\* The fetches of a cycle: a page of readings or an empty page with status
\* 200, a status 503 whose body still carries readings, an exception.
FetchOutcomes ==
    { Response(200, d) : d \in FetchSamples \cup {<<>>} }
        \cup { Response(503, Uniform(1, Window, 10)), Raised }

\* A page whose readings lack 'consumption': sum(...) raises KeyError.
FaultyPages ==
    { Response(200, <<[interval_start |-> 1], [interval_start |-> 2]>>) }

\* every reading has the keys analyze_usage_pattern reads
WellFormed(data) ==
    \A i \in 1..Len(data) : {"interval_start", "consumption"} \subseteq DOMAIN data[i]

---------------------------------------------------------------------------
(* run_check and the loop of run_continuous *)

\* Faulty variant: run_continuous is entered whatever sys.argv says.
AfterCycleLoops == "sleep"

\* Where the process goes when run_check has returned: main prints the
\* result (--once), or run_continuous sleeps.
AfterCycle == IF argv = <<"--once">> THEN "print" ELSE "sleep"

\* get_consumption_data returned [] (an empty page, a status other than
\* 200, or an exception): run_check returns None.
RunCheckNoData ==
    /\ pc = "check" /\ cycles < MaxCycles
    /\ \E r \in FetchOutcomes :
          /\ get_consumption_data(r) = <<>>
          /\ fetch' = FetchKind(r)
    /\ cycles' = cycles + 1
    /\ analysis' = None
    /\ outcome' = "no_data"
    /\ pc' = AfterCycle
    /\ UNCHANGED <<now, config, last_alert_time, consumption_data, ret, log,
                   calls, ops, first_analysis, last_call, prev_call, process>>

\* analysis = self.analyze_usage_pattern(consumption_data) on the fetched
\* list, and the common part of the cycle.
RunCheckAnalyze(charging) ==
    /\ pc = "check" /\ cycles < MaxCycles
    /\ \E r \in FetchOutcomes :
          LET data == get_consumption_data(r)
          IN  /\ data # <<>>
              /\ fetch' = FetchKind(r)
              /\ LET result == analyze_usage_pattern(data)
                  IN  /\ result.is_charging = charging
                      /\ analysis' = Some(result)
    /\ calls' = calls + 1
    /\ cycles' = cycles + 1
    /\ pc' = AfterCycle
    /\ UNCHANGED <<now, config, consumption_data, ops, first_analysis,
                   last_call, prev_call, process>>

\* Faulty variant: send_alert is called whatever is_charging says.
RunCheckAlwaysAlerts ==
    /\ RunCheckAnalyze(FALSE)
    /\ SendAlertSent

\* analysis['is_charging'] is false: send_alert is not called.
RunCheckNotCharging ==
    /\ RunCheckAnalyze(FALSE)
    /\ outcome' = "not_charging"
    /\ UNCHANGED <<last_alert_time, ret, log>>

\* analysis['is_charging'] is true: self.send_alert(analysis)
RunCheckSuppressed == RunCheckAnalyze(TRUE) /\ SendAlertSuppressed

RunCheckFailed == RunCheckAnalyze(TRUE) /\ SendAlertFailed

RunCheckSent == RunCheckAnalyze(TRUE) /\ SendAlertSent

\* time.sleep(check_interval_minutes * 60); the clock has moved on by the
\* sleep and by what the cycle itself took.
Sleep ==
    /\ pc = "sleep"
    /\ \E d \in 0..MaxDelay : now' = now + CheckIntervalSeconds + d
    /\ pc' = "check"
    /\ UNCHANGED <<config, last_alert_time, consumption_data, analysis, ret,
                   outcome, log, calls, cycles, ops, first_analysis,
                   last_call, prev_call, process, fetch>>

\* EnergyMonitor.__init__
InitMonitor(c) ==
    /\ high_usage_threshold = c.threshold
    /\ sustained_minutes = c.sustained
    /\ baseline_usage = c.baseline
    /\ alert_cooldown = CooldownSeconds(c.cooldown_hours)
    /\ last_alert_time = None

InitHistory ==
    /\ analysis = None /\ ret = None /\ outcome = "none" /\ fetch = None
    /\ log = <<>> /\ calls = 0 /\ cycles = 0 /\ ops = 0
    /\ first_analysis = None /\ last_call = None /\ prev_call = None

\* No process around the monitor: its methods are called by a driver.
InitNoProcess ==
    /\ argv = <<>> /\ env = None /\ exit_status = None
    /\ stdout = None /\ error = None /\ settled = FALSE
    /\ monitors = 1

Init ==
    /\ pc = "check"
    /\ InitNoProcess
    /\ now = StartTime
    /\ \E c \in MonitorConfigs : InitMonitor(c)
    /\ consumption_data = <<>>
    /\ InitHistory

Next ==
    \/ RunCheckNoData
    \/ RunCheckNotCharging
    \/ RunCheckSuppressed
    \/ RunCheckFailed
    \/ RunCheckSent
    \/ Sleep

Spec == Init /\ [][Next]_vars

---------------------------------------------------------------------------
(* The monitor's methods called directly: analyze_usage_pattern on a list  *)
(* the caller keeps and may reorder, and send_alert on a charging result.  *)

Consumptions == {3, 10}

\* Keys of the readings of a short list: MaxLen - 1 old ones and a new one.
ShortKeys == (1..(MaxLen - 1)) \cup {Window + 11}

\* A long list is a block of Window - 1 consecutive readings of 1.0 kWh
\* with the keys 11 .. Window + 9 and up to three more readings of 0.3 kWh,
\* two older and one newer: Window - 1 to Window + 2 readings.
LongKeys == {1, 2, Window + 11}

RECURSIVE Ascending(_, _)
\* The readings Reading(k, f[k]) for the keys k of K, oldest first.
Ascending(K, f) ==
    IF K = {} THEN <<>>
    ELSE LET k == CHOOSE x \in K : \A y \in K : x <= y
         IN  <<Reading(k, f[k])>> \o Ascending(K \ {k}, f)

\* The readings of K around a block of n readings.
Around(K, f, n) ==
    Ascending({k \in K : k <= 10}, f) \o Uniform(11, n, 10)
        \o Ascending({k \in K : k > 10}, f)

\* The lists a caller supplies: distinct interval_start values (the API
\* reports each half-hour once), oldest first ('order_by': 'period').
Inputs ==
    { Around(t[1], t[2], 0) :
        t \in (SUBSET ShortKeys) \X [ShortKeys -> Consumptions] }
    \cup
    { Around(K, [k \in LongKeys |-> 3], Window - 1) : K \in SUBSET LongKeys }
    \cup
    { Uniform(1, Window, c) : c \in {3, 5, 10} }

\* Thresholds as __init__ and load_config default them, thresholds of
\* 48.0 kW and of 10.0 kW with a sustained time under one interval, and a
\* threshold of 24.0 kW with two intervals and no cooldown.
ClassifyConfigs ==
    { [threshold |-> 300, sustained |-> 240, baseline |-> 5, cooldown_hours |-> 1],
      [threshold |-> 300, sustained |-> 30,  baseline |-> 8, cooldown_hours |-> 1],
      [threshold |-> 480, sustained |-> 29,  baseline |-> 8, cooldown_hours |-> 1],
      [threshold |-> 100, sustained |-> 29,  baseline |-> 8, cooldown_hours |-> 1],
      [threshold |-> 240, sustained |-> 60,  baseline |-> 5, cooldown_hours |-> 0] }

\* analyze_usage_pattern(consumption_data), called on the caller's list:
\* the result goes to the caller and the list is left sorted.
Analyze ==
    /\ pc = "direct" /\ ops < MaxOps
    /\ LET result == analyze_usage_pattern(consumption_data)
       IN  /\ analysis' = Some(result)
           /\ last_call' = Some([input |-> consumption_data, result |-> result,
                                 last_alert_time |-> last_alert_time])
           /\ first_analysis' = IF first_analysis = None THEN Some(result)
                                ELSE first_analysis
    /\ consumption_data' = SortedInPlace(consumption_data)
    /\ prev_call' = last_call
    /\ calls' = calls + 1
    /\ ops' = ops + 1
    /\ outcome' = "analyzed"
    /\ UNCHANGED <<pc, now, config, last_alert_time, ret, log, cycles,
                   process, fetch>>

\* The caller reorders its list; the readings stay the same.
Reorder(data) ==
    /\ pc = "direct" /\ ops < MaxOps
    /\ Len(consumption_data) >= 2
    /\ consumption_data' = data
    /\ ops' = ops + 1
    /\ outcome' = "reordered"
    /\ UNCHANGED <<pc, now, config, last_alert_time, analysis, ret, log,
                   calls, cycles, first_analysis, last_call, prev_call,
                   process, fetch>>

SwapFirstTwo ==
    Reorder(<<consumption_data[2], consumption_data[1]>>
            \o SubSeq(consumption_data, 3, Len(consumption_data)))

Rotate == Reorder(Tail(consumption_data) \o <<Head(consumption_data)>>)

\* The caller changes the consumption of the oldest reading of a list of
\* more than 48.
ChangeOldest ==
    /\ pc = "direct" /\ ops < MaxOps
    /\ Len(consumption_data) > Window
    /\ LET i == CHOOSE j \in 1..Len(consumption_data) :
                    \A k \in 1..Len(consumption_data) :
                        consumption_data[j].interval_start
                            <= consumption_data[k].interval_start
       IN  \E c \in Consumptions \ {consumption_data[i].consumption} :
               consumption_data' = [consumption_data EXCEPT ![i].consumption = c]
    /\ ops' = ops + 1
    /\ outcome' = "changed"
    /\ UNCHANGED <<pc, now, config, last_alert_time, analysis, ret, log,
                   calls, cycles, first_analysis, last_call, prev_call,
                   process, fetch>>

\* send_alert(analysis) on a result that says is_charging
Notify ==
    /\ pc = "direct" /\ ops < MaxOps
    /\ analysis # None /\ analysis[1].is_charging
    /\ \/ SendAlertSuppressed
       \/ SendAlertFailed
       \/ SendAlertSent
    /\ ops' = ops + 1
    /\ UNCHANGED <<pc, now, config, consumption_data, analysis, calls, cycles,
                   first_analysis, last_call, prev_call, process, fetch>>

InitClassify ==
    /\ pc = "direct"
    /\ InitNoProcess
    /\ now = StartTime
    /\ \E c \in ClassifyConfigs : InitMonitor(c)
    /\ consumption_data \in Inputs
    /\ InitHistory

NextClassify ==
    \/ Analyze
    \/ SwapFirstTwo
    \/ Rotate
    \/ ChangeOldest
    \/ Notify

SpecClassify == InitClassify /\ [][NextClassify]_vars

---------------------------------------------------------------------------
(* The process: main, load_config, run_check once or run_continuous *)

FallbackDelaySeconds == 300

required_keys ==
    << "octopus_api_key", "meter_mpan", "meter_serial", "twilio_account_sid",
       "twilio_auth_token", "twilio_from_number", "twilio_to_number" >>

\* The settings load_config converts, in the order it converts them.
NumberKeys ==
    << "high_usage_threshold_kw", "sustained_minutes", "baseline_usage_kw",
       "alert_cooldown_hours" >>

\* float(s): the number in tenths, or None when float raises ValueError.
ParseFloat(s) ==
    CASE s = "30.0" -> Some(300)
      [] s = "0.8"  -> Some(8)
      [] OTHER      -> None

\* int(s): the number, or None when int raises ValueError.
ParseInt(s) ==
    CASE s = "30" -> Some(30)
      [] s = "4"  -> Some(4)
      [] OTHER    -> None

\* os.getenv(NAME, default); the variable of a setting is its key in
\* upper case, and e is keyed by the setting.
Getenv(e, key, default) == IF e[key] = None THEN default ELSE e[key][1]

\* The four conversions of load_config's dict display.
Converted(e) ==
    [ high_usage_threshold_kw |-> ParseFloat(Getenv(e, "high_usage_threshold_kw", "30.0")),
      sustained_minutes       |-> ParseInt(Getenv(e, "sustained_minutes", "30")),
      baseline_usage_kw       |-> ParseFloat(Getenv(e, "baseline_usage_kw", "0.8")),
      alert_cooldown_hours    |-> ParseInt(Getenv(e, "alert_cooldown_hours", "4")) ]

\* not config.get(key): the variable is unset or set to the empty string
Falsy(v) == v = None \/ v = Some("")

\* Faulty variant: only the first missing key is reported.
MissingFirstOnly(e) ==
    LET all == SelectSeq(required_keys, LAMBDA key : Falsy(e[key]))
    IN  IF all = <<>> THEN all ELSE <<Head(all)>>

\* missing_keys = [key for key in required_keys if not config.get(key)]
missing_keys(e) == SelectSeq(required_keys, LAMBDA key : Falsy(e[key]))

\* What load_config does in the environment e: a conversion raises
\* ValueError while the dict is built, or the validation raises ValueError
\* naming the missing keys, or the config is returned.
load_config(e) ==
    LET c == Converted(e)
        bad == SelectSeq(NumberKeys, LAMBDA key : c[key] = None)
    IN  IF bad # <<>>
            THEN [raised |-> TRUE, exception |-> <<"ValueError", "conversion", Head(bad)>>]
        ELSE IF missing_keys(e) # <<>>
            THEN [raised |-> TRUE,
                  exception |-> <<"ValueError", "Missing required configuration",
                                  missing_keys(e)>>]
        ELSE [raised |-> FALSE,
              config |-> [threshold      |-> c.high_usage_threshold_kw[1],
                          sustained      |-> c.sustained_minutes[1],
                          baseline       |-> c.baseline_usage_kw[1],
                          cooldown_hours |-> c.alert_cooldown_hours[1]]]

\* json.dumps(result, indent=2): "null" for None, an object for a dict.
JsonDumps(v) == IF v = None THEN <<"null">> ELSE <<"object", v[1]>>

\* main: load_config raises; the except clause logs the error and main
\* returns 1.
MainConfigFails ==
    /\ pc = "main"
    /\ load_config(env).raised
    /\ error' = Some(load_config(env).exception)
    /\ exit_status' = Some(1)
    /\ pc' = "exit"
    /\ outcome' = "config_error"
    /\ UNCHANGED <<argv, env, stdout, monitors, settled, now, config,
                   last_alert_time, consumption_data, analysis, ret, log,
                   calls, cycles, ops, first_analysis, last_call, prev_call,
                   fetch>>

\* main: monitor = EnergyMonitor(config), then run_check or run_continuous.
MainStarts ==
    /\ pc = "main"
    /\ ~load_config(env).raised
    /\ LET c == load_config(env).config
       IN  /\ high_usage_threshold' = c.threshold
           /\ sustained_minutes' = c.sustained
           /\ baseline_usage' = c.baseline
           /\ alert_cooldown' = CooldownSeconds(c.cooldown_hours)
           /\ last_alert_time' = None
    /\ monitors' = monitors + 1
    /\ pc' = "check"
    /\ outcome' = "started"
    /\ UNCHANGED <<argv, env, exit_status, stdout, error, settled, now,
                   consumption_data, analysis, ret, log, calls, cycles, ops,
                   first_analysis, last_call, prev_call, fetch>>

\* Faulty variant: an exception of a cycle ends run_continuous.
RunCheckRaisesAndStops ==
    /\ pc = "check" /\ cycles < MaxCycles
    /\ \E r \in FaultyPages : fetch' = FetchKind(r)
    /\ calls' = calls + 1
    /\ cycles' = cycles + 1
    /\ analysis' = None
    /\ outcome' = "raised"
    /\ error' = Some(<<"KeyError", "consumption">>)
    /\ exit_status' = Some(1)
    /\ pc' = "exit"
    /\ UNCHANGED <<argv, env, stdout, monitors, settled, now, config,
                   last_alert_time, consumption_data, ret, log, ops,
                   first_analysis, last_call, prev_call>>

\* analyze_usage_pattern raises on the fetched list: the exception leaves
\* run_check.  run_continuous catches it and goes to the fallback sleep;
\* with --once it reaches main, which logs it and returns 1.
RunCheckRaises ==
    /\ pc = "check" /\ cycles < MaxCycles
    /\ \E r \in FaultyPages :
          LET data == get_consumption_data(r)
          IN  /\ data # <<>>
              /\ Len(RecentReadings(data)) >= 2
              /\ ~WellFormed(data)
              /\ fetch' = FetchKind(r)
    /\ calls' = calls + 1
    /\ cycles' = cycles + 1
    /\ analysis' = None
    /\ outcome' = "raised"
    /\ IF argv = <<"--once">>
          THEN /\ error' = Some(<<"KeyError", "consumption">>)
               /\ exit_status' = Some(1)
               /\ pc' = "exit"
          ELSE /\ pc' = "backoff"
               /\ UNCHANGED <<error, exit_status>>
    /\ UNCHANGED <<argv, env, stdout, monitors, settled, now, config,
                   last_alert_time, consumption_data, ret, log, ops,
                   first_analysis, last_call, prev_call>>

\* Faulty variant: after the fallback sleep the loop is not entered again.
BackoffThenStops ==
    /\ pc = "backoff"
    /\ \E d \in 0..MaxDelay : now' = now + FallbackDelaySeconds + d
    /\ pc' = "exit"
    /\ UNCHANGED <<config, last_alert_time, consumption_data, analysis, ret,
                   outcome, log, calls, cycles, ops, first_analysis,
                   last_call, prev_call, process, fetch>>

\* time.sleep(300) in the except clause of run_continuous
Backoff ==
    /\ pc = "backoff"
    /\ \E d \in 0..MaxDelay : now' = now + FallbackDelaySeconds + d
    /\ pc' = "check"
    /\ UNCHANGED <<config, last_alert_time, consumption_data, analysis, ret,
                   outcome, log, calls, cycles, ops, first_analysis,
                   last_call, prev_call, process, fetch>>

\* KeyboardInterrupt inside the try of run_continuous (in run_check or in
\* the interval sleep): the loop breaks, run_continuous returns and main
\* returns 0.
Interrupt ==
    /\ pc \in {"check", "sleep"} /\ argv = <<>>
    /\ pc' = "exit"
    /\ exit_status' = Some(0)
    /\ outcome' = "interrupt"
    /\ UNCHANGED <<argv, env, stdout, error, monitors, settled, now, config,
                   last_alert_time, consumption_data, analysis, ret, log,
                   calls, cycles, ops, first_analysis, last_call, prev_call,
                   fetch>>

\* KeyboardInterrupt in the fallback sleep, which is inside the except
\* clause: no handler of run_continuous or main catches it, and it ends
\* the process with main returning nothing.
InterruptInBackoff ==
    /\ pc = "backoff"
    /\ pc' = "killed"
    /\ outcome' = "interrupt"
    /\ UNCHANGED <<config, last_alert_time, consumption_data, analysis, ret,
                   log, calls, cycles, ops, first_analysis, last_call,
                   prev_call, process, fetch, now>>

\* print(json.dumps(result, indent=2)) and return 0
PrintResult ==
    /\ pc = "print"
    /\ stdout' = Some(JsonDumps(analysis))
    /\ exit_status' = Some(0)
    /\ pc' = "exit"
    /\ UNCHANGED <<argv, env, error, monitors, settled, now, config,
                   last_alert_time, consumption_data, analysis, ret, outcome,
                   log, calls, cycles, ops, first_analysis, last_call,
                   prev_call, fetch>>

\* The values a variable of the environment is given: unset, empty, set.
Credentials == {None, Some(""), Some("x")}

\* The environments main starts in.
Environments ==
    { cred @@ nums :
        cred \in [Range(required_keys) -> Credentials],
        nums \in [ high_usage_threshold_kw : {None, Some("abc")},
                   sustained_minutes       : {None},
                   baseline_usage_kw       : {None},
                   alert_cooldown_hours    : {None, Some("abc")} ] }

InitMain ==
    /\ pc = "main"
    /\ argv \in {<<>>, <<"--once">>}
    /\ env \in Environments
    /\ exit_status = None /\ stdout = None /\ error = None
    /\ monitors = 0 /\ settled = FALSE
    /\ now = StartTime
    /\ high_usage_threshold = 0 /\ sustained_minutes = 0 /\ baseline_usage = 0
    /\ alert_cooldown = 0 /\ last_alert_time = None
    /\ consumption_data = <<>>
    /\ InitHistory

NextMain ==
    \/ MainConfigFails
    \/ MainStarts
    \/ RunCheckNoData
    \/ RunCheckNotCharging
    \/ RunCheckSuppressed
    \/ RunCheckFailed
    \/ RunCheckSent
    \/ RunCheckRaises
    \/ Sleep
    \/ Backoff
    \/ Interrupt
    \/ InterruptInBackoff
    \/ PrintResult

SpecMain == InitMain /\ [][NextMain]_vars

---------------------------------------------------------------------------
(* run_continuous left to run: no interrupt, every sleep and every call    *)
(* returns.  The data source and the SMS service may fail, and from the    *)
(* step Settle on they do not: every fetch gives a charging window and     *)
(* every dispatch succeeds.                                                *)

\* a cycle that the failing environment allows
TransientCycle ==
    /\ ~settled
    /\ \/ RunCheckNoData
       \/ RunCheckNotCharging
       \/ RunCheckFailed
       \/ RunCheckRaises

\* a cycle that any environment allows: the window is charging and the
\* dispatch, if not suppressed, succeeds
SettledCycle == RunCheckSuppressed \/ RunCheckSent

Settle ==
    /\ ~settled
    /\ settled' = TRUE
    /\ UNCHANGED <<pc, argv, env, exit_status, stdout, error, monitors, now,
                   config, last_alert_time, consumption_data, analysis, ret,
                   outcome, log, calls, cycles, ops, first_analysis,
                   last_call, prev_call, fetch>>

\* load_config's default thresholds with a cooldown of an hour and with
\* none.
LiveConfigs == {c \in MonitorConfigs : c.sustained = 30}

InitLive ==
    /\ pc = "check"
    /\ InitNoProcess
    /\ now = StartTime
    /\ \E c \in LiveConfigs : InitMonitor(c)
    /\ consumption_data = <<>>
    /\ InitHistory

NextLive ==
    \/ TransientCycle
    \/ SettledCycle
    \/ Sleep
    \/ Backoff
    \/ Settle

\* run_check, started, comes to its end: the loop goes from the cycle to
\* one of its sleeps.
CycleEnds ==
    /\ pc = "check" /\ cycles < MaxCycles
    /\ pc' \in {"sleep", "backoff"}

\* The loop makes progress: a sleep returns, a cycle is run to its end.
SpecLive ==
    /\ InitLive /\ [][NextLive]_vars
    /\ WF_vars(Sleep) /\ WF_vars(Backoff)
    /\ WF_pc(CycleEnds)

---------------------------------------------------------------------------
(* Properties of the notifier, checked under Spec *)

Entries == 1..Len(log)

NoFailure == \A i \in Entries : log[i].result # "failed"

NumberSent == Cardinality({i \in Entries : log[i].result = "sent"})

\* C1: any two SMS that were sent are at least alert_cooldown seconds
\* apart, by the times read at their cooldown checks, whatever happened in
\* the cycles between them.
C1_CooldownBetweenAlerts ==
    \A i, j \in Entries :
        i < j /\ log[i].result = "sent" /\ log[j].result = "sent"
            => log[j].time - log[i].time >= alert_cooldown

\* Two SMS were sent in one run, with a suppressed attempt between them.
C1_Witness ==
    /\ alert_cooldown > 0
    /\ \E i, k, j \in Entries :
          /\ i < k /\ k < j
          /\ log[i].result = "sent" /\ log[k].result = "suppressed"
          /\ log[j].result = "sent"

\* C2: with no alert before and no dispatch failing, two calls of the
\* notifier less than alert_cooldown apart send exactly one SMS, and two
\* calls alert_cooldown or more apart send two.
C2_CooldownMonotonicity ==
    Len(log) = 2 /\ NoFailure =>
        LET apart == log[2].time - log[1].time
        IN  /\ apart < alert_cooldown => NumberSent = 1
            /\ apart >= alert_cooldown => NumberSent = 2

\* Two calls exactly alert_cooldown apart, both sent.
C2_Witness ==
    /\ Len(log) = 2 /\ NoFailure
    /\ alert_cooldown > 0
    /\ log[2].time - log[1].time = alert_cooldown
    /\ NumberSent = 2

\* C3: a failed dispatch leaves last_alert_time as it was, run_check goes
\* on to return the analysis, and the next call of the notifier is not
\* suppressed: it tries the dispatch again.
C3_FailedDispatchKeepsState ==
    /\ \A i \in Entries :
          log[i].result = "failed" =>
              /\ log[i].after = log[i].before
              /\ i < Len(log) => log[i + 1].result # "suppressed"
    /\ outcome = "failed" =>
          /\ analysis # None /\ ret = None
          /\ last_alert_time = log[Len(log)].before

\* A dispatch failed after an earlier alert, and the next cycle sent.
C3_Witness ==
    \E i \in Entries :
        /\ log[i].result = "failed" /\ log[i].before # None
        /\ i < Len(log) /\ log[i + 1].result = "sent"

\* C4: a cycle whose analysis says is_charging = false does not call the
\* notifier and leaves last_alert_time as it was.
C4_NotChargingIsNoOp ==
    [][ (cycles' = cycles + 1 /\ analysis' # None /\ ~analysis'[1].is_charging)
            => (log' = log /\ last_alert_time' = last_alert_time /\ ret' = ret) ]_vars

\* A cycle that was not charging ended while the notifier was cooling.
C4_Witness ==
    /\ outcome = "not_charging"
    /\ log # <<>> /\ log[Len(log)].result = "sent"
    /\ last_alert_time # None
    /\ now - last_alert_time[1] < alert_cooldown

\* C5 as stated: the notifier returns true exactly when the dispatch
\* succeeded, and false when suppressed or when the dispatch failed.
C5_ReturnsDispatched ==
    /\ outcome = "sent" => ret = Some(TRUE)
    /\ outcome \in {"suppressed", "failed"} => ret = Some(FALSE)

\* C5 as amended: the notifier returns None on every path; it sets
\* last_alert_time to the time of its cooldown check exactly when the
\* dispatch succeeded and leaves it unchanged otherwise.
C5_ReturnsNone ==
    /\ outcome \in {"sent", "suppressed", "failed"} => ret = None
    /\ \A i \in Entries :
          /\ log[i].result = "sent" => log[i].after = Some(log[i].time)
          /\ log[i].result # "sent" => log[i].after = log[i].before

\* One run in which the notifier sent, was suppressed and failed.
C5_Witness ==
    /\ ret = None
    /\ \A r \in {"sent", "suppressed", "failed"} :
          \E i \in Entries : log[i].result = r

\* The notifier is Armed when a call of send_alert now would attempt the
\* dispatch, and Cooling when it would be suppressed.
Armed == last_alert_time = None \/ now - last_alert_time[1] >= alert_cooldown

\* this step is a call of send_alert whose dispatch succeeded
SentStep == Len(log') = Len(log) + 1 /\ log'[Len(log')].result = "sent"

\* C15: the notifier starts Armed with last_alert_time unset;
\* last_alert_time changes in a step exactly when the step is a successful
\* dispatch, and it becomes the time read at the cooldown check; a
\* suppressed attempt leaves it unchanged; an attempt is suppressed exactly
\* when the notifier is Cooling, i.e. the notifier is Armed exactly when
\* no alert was sent yet or alert_cooldown has elapsed since the last one.
C15_NotifierStateMachine ==
    /\ [](NumberSent = 0 => last_alert_time = None /\ Armed)
    /\ [](NumberSent > 0 =>
              \E i \in Entries :
                  /\ log[i].result = "sent" /\ last_alert_time = Some(log[i].time)
                  /\ \A j \in Entries : j > i => log[j].result # "sent")
    /\ [][ /\ last_alert_time' # last_alert_time <=> SentStep
           /\ SentStep => last_alert_time' = Some(now) /\ Armed /\ now' = now
           /\ Len(log') = Len(log) + 1 =>
                 (log'[Len(log')].result = "suppressed" <=> ~Armed) ]_vars

\* An alert, a suppressed attempt, and an alert again exactly
\* alert_cooldown after the first: the suppressed attempt did not extend
\* the cooldown.
C15_Witness ==
    /\ Len(log) = 3 /\ alert_cooldown > 0
    /\ log[1].result = "sent" /\ log[2].result = "suppressed"
    /\ log[3].result = "sent"
    /\ log[2].after = Some(log[1].time)
    /\ log[3].time = log[1].time + alert_cooldown
    /\ last_alert_time = Some(log[3].time) /\ ~Armed

---------------------------------------------------------------------------
(* Properties of the classifier, checked under SpecClassify *)

\* The window, the total and the count of a call, from its input alone.
WindowOf(call) == Take(SortedInPlace(call.input), Window)

TotalOf(w) == SumConsumption(w)

CountOver(w, level) == Cardinality({i \in 1..Len(w) : 2 * w[i].consumption > level})

\* C6: an empty list of readings gives is_charging = false with the reason
\* "No data available" and no other field.
C6_EmptyGivesNoData ==
    last_call # None /\ last_call[1].input = <<>> =>
        /\ analysis = Some([is_charging |-> FALSE, reason |-> <<"No data available">>])
        /\ DOMAIN analysis[1] = {"is_charging", "reason"}

C6_Witness == last_call # None /\ last_call[1].input = <<>>

\* C7: a list of exactly one reading gives is_charging = false with the
\* reason "Insufficient data", whatever the consumption and the thresholds.
C7_OneReadingInsufficient ==
    last_call # None /\ Len(last_call[1].input) = 1 =>
        analysis = Some([is_charging |-> FALSE, reason |-> <<"Insufficient data">>])

\* One reading of 1.0 kWh under thresholds that ask for no sustained period.
C7_Witness ==
    /\ last_call # None /\ Len(last_call[1].input) = 1
    /\ last_call[1].input[1].consumption = 10
    /\ sustained_minutes < 30

\* C8: the result does not depend on the order of the readings: every call
\* on a reordering of the list returns what the first call returned.
C8_OrderIndependent ==
    last_call # None => last_call[1].result = first_analysis[1]

\* Two calls on differently ordered lists of more than Window readings.
C8_Witness ==
    /\ prev_call # None
    /\ last_call[1].input # prev_call[1].input
    /\ Len(last_call[1].input) > Window
    /\ last_call[1].result.total_periods_analyzed = Window

\* C9: two calls in a row on identical input return identical results,
\* whatever happened to last_alert_time between them.
C9_SameInputSameResult ==
    prev_call # None /\ last_call[1].input = prev_call[1].input =>
        last_call[1].result = prev_call[1].result

\* Two calls on the same list of two or more readings, an alert sent
\* between them.
C9_Witness ==
    /\ prev_call # None
    /\ last_call[1].input = prev_call[1].input
    /\ Len(last_call[1].input) >= 2
    /\ last_call[1].last_alert_time # prev_call[1].last_alert_time

\* C10: for a window of two or more readings is_charging is true exactly
\* when day_power_kw > threshold and the number of readings with
\* consumption / 0.5 > baseline is at least sustained_minutes // 30; the
\* count the result reports is the one over the baseline.
C10_IsChargingRule ==
    outcome = "analyzed" /\ Len(WindowOf(last_call[1])) >= 2 =>
        LET w == WindowOf(last_call[1])
            r == last_call[1].result
            over == 48 * TotalOf(w) > high_usage_threshold * Len(w)
        IN  /\ r.is_charging <=>
                  (over /\ CountOver(w, baseline_usage) >= sustained_minutes \div 30)
            /\ ~over => ~r.is_charging
            /\ r.high_usage_periods = CountOver(w, baseline_usage)

\* Not charging although enough readings are over the baseline: the day
\* power is not over the threshold.
C10_Witness ==
    /\ outcome = "analyzed" /\ Len(WindowOf(last_call[1])) >= 2
    /\ ~last_call[1].result.is_charging
    /\ last_call[1].result.high_usage_periods >= sustained_minutes \div 30
    /\ last_call[1].result.high_usage_periods >= 1
    /\ CountOver(WindowOf(last_call[1]), high_usage_threshold) = 0

\* The readings of a list that are among its 48 newest.
NewestReadings(input) ==
    { input[i] : i \in { j \in 1..Len(input) :
        Cardinality({k \in 1..Len(input) :
            input[k].interval_start > input[j].interval_start}) < Window } }

\* C17: for a list of n >= 2 readings total_periods_analyzed is min(n, 48)
\* and latest_reading_time is the greatest interval_start of the list; two
\* calls on lists with the same 48 newest readings return the same result,
\* whatever the older readings are.
C17_UsesNewest48 ==
    /\ outcome = "analyzed" /\ Len(last_call[1].input) >= 2 =>
          LET input == last_call[1].input
              r == last_call[1].result
          IN  /\ r.total_periods_analyzed =
                     (IF Len(input) < Window THEN Len(input) ELSE Window)
              /\ \A i \in 1..Len(input) :
                     r.latest_reading_time >= input[i].interval_start
              /\ \E i \in 1..Len(input) :
                     r.latest_reading_time = input[i].interval_start
    /\ outcome = "analyzed" /\ prev_call # None
          /\ NewestReadings(prev_call[1].input) = NewestReadings(last_call[1].input)
          => last_call[1].result = prev_call[1].result

\* Two calls on lists of 50 readings that differ in the consumption of
\* the oldest reading.
C17_Witness ==
    /\ prev_call # None
    /\ Len(last_call[1].input) = Window + 2
    /\ Len(prev_call[1].input) = Window + 2
    /\ \E r \in Range(last_call[1].input) :
          /\ r \notin Range(prev_call[1].input)
          /\ r.interval_start = 1
    /\ last_call[1].result.total_periods_analyzed = Window

\* the window w is n readings of consumption x each
UniformWindow(w, n, x) ==
    Len(w) = n /\ \A i \in 1..n : w[i].consumption = x

\* C18: for a window of 2 to 48 readings day_power_kw is
\* 48 * total_consumption / count: average_power_kw is that quotient to the
\* nearest hundredth and the reason cites it to the nearest tenth; 48
\* readings of X each give 48 * X: 24.0 for 0.5, 48.0 for 1.0, 14.4 for 0.3.
C18_DayPowerFormula ==
    outcome = "analyzed" /\ Len(WindowOf(last_call[1])) >= 2 =>
        LET w == WindowOf(last_call[1])
            r == last_call[1].result
            n == Len(w)
            hundredths == r.average_power_kw
            tenths == r.reason[2]
        IN  /\ n <= Window
            /\ 2 * (hundredths * n - 480 * TotalOf(w)) <= n
            /\ 2 * (480 * TotalOf(w) - hundredths * n) <= n
            /\ 2 * (tenths * n - 48 * TotalOf(w)) <= n
            /\ 2 * (48 * TotalOf(w) - tenths * n) <= n
            /\ \A x \in {3, 5, 10} :
                  UniformWindow(w, Window, x) =>
                      hundredths = 480 * x /\ tenths = 48 * x
            /\ UniformWindow(w, Window, 5) => tenths = 240
            /\ UniformWindow(w, Window, 10) => tenths = 480
            /\ UniformWindow(w, Window, 3) => tenths = 144

\* 48 readings of 0.5 kWh were analysed: 24.0 kW.
C18_Witness ==
    /\ outcome = "analyzed"
    /\ Len(last_call[1].input) = Window
    /\ UniformWindow(last_call[1].input, Window, 5)
    /\ last_call[1].result.average_power_kw = 2400

\* C19: with sustained_minutes < 30 the count asked for is 0 and
\* is_charging is day_power_kw > threshold alone, for every window of two
\* or more readings, also when no reading is over the baseline.
C19_SustainedGateVacuous ==
    outcome = "analyzed" /\ sustained_minutes < 30
        /\ Len(WindowOf(last_call[1])) >= 2 =>
        LET w == WindowOf(last_call[1])
            r == last_call[1].result
        IN  r.is_charging <=> 48 * TotalOf(w) > high_usage_threshold * Len(w)

\* Charging was reported although no reading is over the baseline.
C19_Witness ==
    /\ outcome = "analyzed" /\ sustained_minutes < 30
    /\ Len(WindowOf(last_call[1])) >= 2
    /\ last_call[1].result.is_charging
    /\ last_call[1].result.high_usage_periods = 0
    /\ CountOver(WindowOf(last_call[1]), baseline_usage) = 0

\* C16: a call of the classifier leaves the caller's list of readings as
\* it was, the same elements in the same order, and changes neither
\* last_alert_time nor a threshold.
C16_NoSideEffects ==
    [][ calls' = calls + 1 =>
            /\ consumption_data' = consumption_data
            /\ last_alert_time' = last_alert_time
            /\ config' = config ]_vars

---------------------------------------------------------------------------
(* Liveness of the alerts, checked under SpecLive *)

\* The cycles a settled loop needs at most until it sends: cycles after
\* an alert are an interval sleep or more apart, so the one that comes
\* alert_cooldown after the alert, or the first one when there is no
\* cooldown.
CyclesToAlert ==
    IF alert_cooldown = 0 THEN 1
    ELSE (alert_cooldown + CheckIntervalSeconds - 1) \div CheckIntervalSeconds

\* C20: once every fetch gives a charging window and every dispatch
\* succeeds, an alert is sent, and after every alert another one is sent
\* when the cooldown has elapsed: the number of alerts sent keeps growing
\* as long as the loop has cycles left, whatever failed before.
C20_AlertsEventuallySent ==
    \A n \in 0..MaxCycles :
        (settled /\ NumberSent = n /\ cycles + CyclesToAlert <= MaxCycles)
            ~> (NumberSent > n)

\* A second alert was sent after the step Settle, when the cooldown of
\* the first had elapsed.
C20_Witness ==
    /\ settled /\ alert_cooldown > 0
    /\ NumberSent = 2
    /\ outcome = "sent"
    /\ log[Len(log)].time - last_alert_time[1] = 0
    /\ \E i \in Entries : log[i].result = "suppressed"

---------------------------------------------------------------------------
(* Properties of the process, checked under SpecMain *)

\* the fetch of the last cycle failed: an exception, or a status other than 200
FetchFailed(f) == f = <<"exception">> \/ (f[1] = "status" /\ f[2] # 200)

\* C11: a cycle whose fetch fails (a status other than 200, or an
\* exception) gets the empty list from the fetcher: it does not call the
\* classifier or the notifier, leaves last_alert_time as it was, returns
\* None and ends normally, with no exception for the loop or main to catch.
C11_FetchFailureSkipsCycle ==
    [][ (cycles' = cycles + 1 /\ FetchFailed(fetch'))
            => /\ calls' = calls /\ log' = log
               /\ last_alert_time' = last_alert_time
               /\ analysis' = None
               /\ outcome' = "no_data"
               /\ pc' = AfterCycle /\ error' = error ]_vars

\* A fetch answered with status 503 while the notifier was cooling.
C11_Witness ==
    /\ outcome = "no_data" /\ fetch = <<"status", 503>>
    /\ pc = "sleep"
    /\ last_alert_time # None /\ now - last_alert_time[1] < alert_cooldown

\* run_continuous is in its loop
Running == {"check", "sleep", "backoff"}

Continuous == argv = <<>> /\ pc \in Running

\* C12: in continuous mode a cycle that raises is followed by the fallback
\* sleep of 300 s and then by another cycle, a cycle that ends normally by
\* the interval sleep and then by another cycle; the loop is left only by
\* an interrupt, and an interrupt ends it in the cycle, in the interval
\* sleep and in the fallback sleep alike.
C12_LoopSurvivesExceptions ==
    /\ [][ Continuous =>
              /\ cycles' = cycles + 1 =>
                    pc' = (IF outcome' = "raised" THEN "backoff" ELSE "sleep")
              /\ pc = "backoff" /\ pc' \in Running =>
                    pc' = "check" /\ now' >= now + FallbackDelaySeconds
              /\ pc = "sleep" /\ pc' \in Running =>
                    pc' = "check" /\ now' >= now + CheckIntervalSeconds
              /\ pc' \notin Running => outcome' = "interrupt" ]_vars
    /\ [](Continuous =>
              ENABLED ((Interrupt \/ InterruptInBackoff) /\ pc' \notin Running))

\* The loop was interrupted in a fallback sleep, after three cycles of
\* which the last raised and an earlier one called the notifier.
C12_Witness ==
    /\ argv = <<>> /\ pc = "killed" /\ outcome = "interrupt"
    /\ cycles >= 3
    /\ log # <<>>

\* The required settings that are unset or empty in the environment.
Missing == {key \in Range(required_keys) : env[key] = None \/ env[key] = Some("")}

\* The numeric settings whose text is not a number.
Unconvertible == {key \in Range(NumberKeys) : env[key] = Some("abc")}

\* main ended at startup: no monitor, no cycle, exit status 1.
FailedAtStartup ==
    /\ pc = "exit" /\ exit_status = Some(1)
    /\ monitors = 0 /\ cycles = 0 /\ calls = 0 /\ log = <<>> /\ fetch = None

\* the error main logged names exactly the settings of Missing, each once
ReportsMissing ==
    /\ error # None
    /\ error[1][2] = "Missing required configuration"
    /\ Range(error[1][3]) = Missing
    /\ Len(error[1][3]) = Cardinality(Missing)

\* C13 as stated: when a required setting is unset or empty, startup fails
\* before a monitor exists, the error names exactly the missing settings
\* and the exit status is 1; when none is missing, startup succeeds.
C13_MissingFieldsReported ==
    pc # "main" =>
        IF Missing # {} THEN FailedAtStartup /\ ReportsMissing
        ELSE monitors = 1

\* C13 as amended: all of the above when the four numeric settings are
\* unset or numbers; when one of them is not a number, startup fails in
\* the same way (no monitor, exit status 1) with the error of the
\* conversion, whatever is missing.
C13_StartupValidation ==
    pc # "main" =>
        IF Unconvertible # {}
            THEN FailedAtStartup /\ error # None /\ error[1][2] = "conversion"
        ELSE IF Missing # {} THEN FailedAtStartup /\ ReportsMissing
        ELSE monitors = 1

\* Startup failed naming three missing settings, the first of the list
\* not among them, one of them set to the empty string.
C13_Witness ==
    /\ FailedAtStartup /\ ReportsMissing
    /\ Cardinality(Missing) = 3
    /\ "octopus_api_key" \notin Missing
    /\ \E key \in Missing : env[key] = Some("")
    /\ \E key \in Missing : env[key] = None

\* main was started with --once and has created its monitor
Once == argv = <<"--once">> /\ monitors = 1

\* C14 as stated: with --once the process runs one cycle (one fetch, at
\* most one classification and one dispatch attempt), prints the analysis
\* result of the cycle as an object and exits, however the fetch went.
C14_PrintsAnalysisResult ==
    /\ Once => pc \in {"check", "print", "exit"} /\ cycles <= 1
    /\ Once /\ pc = "exit" =>
          /\ cycles = 1 /\ calls <= 1 /\ Len(log) <= 1
          /\ stdout # None /\ stdout[1][1] = "object"
          /\ "is_charging" \in DOMAIN stdout[1][2]

\* C14 as amended: with --once the process runs one cycle and exits; it
\* prints what run_check returned, which is the analysis result when the
\* fetch gave readings and null when the fetch gave none or failed, and
\* returns 0; when the cycle raises it prints nothing and returns 1.
C14_SingleCheck ==
    /\ Once => pc \in {"check", "print", "exit"} /\ cycles <= 1
    /\ Once /\ pc = "exit" =>
          /\ cycles = 1 /\ calls <= 1 /\ Len(log) <= 1
          /\ CASE outcome = "no_data" ->
                    /\ stdout = Some(<<"null">>) /\ exit_status = Some(0)
                    /\ calls = 0 /\ log = <<>>
                [] outcome = "raised" ->
                    /\ stdout = None /\ exit_status = Some(1)
                [] OTHER ->
                    /\ fetch = <<"status", 200>>
                    /\ analysis # None
                    /\ stdout = Some(<<"object", analysis[1]>>)
                    /\ "is_charging" \in DOMAIN analysis[1]
                    /\ exit_status = Some(0)

\* A single check whose fetch raised: null was printed.
C14_Witness ==
    /\ Once /\ pc = "exit"
    /\ fetch = <<"exception">>
    /\ stdout = Some(<<"null">>) /\ exit_status = Some(0)

===========================================================================
